---- MODULE Spec2Model ----
(***************************************************************************)
(* gotestlooplint: the analyzer's scan of one source unit.                 *)
(*                                                                         *)
(* The source unit is the sequence of its syntax nodes in document order   *)
(* (the order of ast.Inspect and of Inspector.Preorder).  A node's         *)
(* position (Pos) is its index in that sequence; a node with size n is     *)
(* followed by its n descendants.  Only the node kinds the analyzer tells  *)
(* apart are kept: identifiers, call expressions and loops.  Each          *)
(* identifier carries the object go/types resolves it to (TypesInfo), so   *)
(* two identifiers of one name may resolve to different objects.           *)
(***************************************************************************)
EXTENDS Integers, Sequences, FiniteSets, TLC

VARIABLES unit, cursor, diags, log, pc

vars == <<unit, cursor, diags, log, pc>>

(* The longest closure body (in statements) of the closures drawn in full. *)
MaxBody == 3

----------------------------------------------------------------------------
(* Objects, identifiers, expressions *)

(* A types.Object: its name, its declaration, its type and its package. *)
Obj(name, decl, typ, pkg) == [name |-> name, decl |-> decl, typ |-> typ, pkg |-> pkg]

(* The nil types.Object: what ObjectOf answers for a nil identifier and    *)
(* for an identifier that denotes no object (the blank identifier on the   *)
(* left of an assignment).                                                 *)
NoObject == Obj("", "nil", "", "")

Ident(name, obj) == [name |-> name, obj |-> obj]

(* The nil identifier pointer. *)
NilIdent == Ident("<nil>", NoObject)

ObjectOf(identifier) == identifier.obj

Expr(e, id) == [e |-> e, id |-> id]

NilExpr == Expr("nil", NilIdent)


(* The two message formats, with ' for the back quotes of the source. *)
goTestFailureMessageFormat == "loop variable '%s' used directly inside parallel test closure. This could lead to tests not running as expected. Try aliasing '%s' to a variable outside the closure"

ginkgoFailureMessageFormat == "loop variable '%s' used directly inside ginkgo It closure. This could lead to tests not running as expected. Try aliasing '%s' to a variable outside the closure"

panicMessageFormat == "panic: %s\n"

----------------------------------------------------------------------------
(* Syntax nodes *)

(* An identifier occurrence. *)
IdentNode(id) == <<[k |-> "Ident", size |-> 0, id |-> id]>>

(* A call x.sel(args): fun = "SelectorExpr", x the receiver expression,    *)
(* callee the selected identifier.  A call f(args): fun = "Ident", callee  *)
(* f.  nargs = len(Args); lit = Args[1] is a function literal, whose body  *)
(* is the call's descendants and whose first parameter is param.           *)
SelCall(x, callee, nargs, lit, param, body) ==
  <<[k |-> "CallExpr", size |-> Len(body), fun |-> "SelectorExpr", x |-> x,
     callee |-> callee, nargs |-> nargs, lit |-> lit, param |-> param]>> \o body

IdentCall(callee, nargs, lit, body) ==
  <<[k |-> "CallExpr", size |-> Len(body), fun |-> "Ident", x |-> NilExpr,
     callee |-> callee, nargs |-> nargs, lit |-> lit, param |-> NoObject]>> \o body

(* A counting loop: init is the kind of its Init statement ("nil",         *)
(* "AssignStmt", "IncDecStmt"), tok and lhs those of the assignment;       *)
(* fnTest, whether the function around it is a Test function.              *)
ForStmt(init, tok, lhs, fnTest, body) ==
  <<[k |-> "ForStmt", size |-> Len(body), init |-> init, tok |-> tok,
     lhs |-> lhs, fnTest |-> fnTest]>> \o body

(* A collection loop: lhs = <<Key, Value>>, NilExpr for an absent one. *)
RangeStmt(tok, key, value, fnTest, body) ==
  <<[k |-> "RangeStmt", size |-> Len(body), init |-> "", tok |-> tok,
     lhs |-> <<key, value>>, fnTest |-> fnTest]>> \o body

isLoop(i) == unit[i].k \in {"ForStmt", "RangeStmt"}

(* The positions of a node's descendants. *)
Below(i) == (i + 1) .. (i + unit[i].size)

----------------------------------------------------------------------------
(* looputils.go *)

exprToIdent(expr) ==
  CASE expr.e = "Ident" -> expr.id
    [] expr.e = "SelectorExpr" -> expr.id
    [] OTHER -> NilIdent

isNonNilExpr(expr) == expr # NilExpr

(* slices.Map, slices.Filter, slices.Reject of life4/genesis *)
RECURSIVE MapExprToIdent(_)
MapExprToIdent(s) ==
  IF s = <<>> THEN <<>> ELSE <<exprToIdent(Head(s))>> \o MapExprToIdent(Tail(s))

RECURSIVE MapObjectOf(_)
MapObjectOf(s) ==
  IF s = <<>> THEN <<>> ELSE <<ObjectOf(Head(s))>> \o MapObjectOf(Tail(s))

RECURSIVE FilterNonNilExpr(_)
FilterNonNilExpr(s) ==
  IF s = <<>> THEN <<>>
  ELSE (IF isNonNilExpr(Head(s)) THEN <<Head(s)>> ELSE <<>>) \o FilterNonNilExpr(Tail(s))

RECURSIVE RejectNilIdent(_)
RejectNilIdent(s) ==
  IF s = <<>> THEN <<>>
  ELSE (IF Head(s) = NilIdent THEN <<>> ELSE <<Head(s)>>) \o RejectNilIdent(Tail(s))

getLoopVarsIdentifiers(loopNode) ==
  CASE loopNode.k = "ForStmt" ->
         IF loopNode.init = "AssignStmt"
         THEN RejectNilIdent(MapExprToIdent(loopNode.lhs))
         ELSE <<>>
    [] loopNode.k = "RangeStmt" ->
         MapExprToIdent(FilterNonNilExpr(loopNode.lhs))

----------------------------------------------------------------------------
(* The analyzer *)

Reportf(pos, format, args) == [pos |-> pos, format |-> format, args |-> args]

Normal(out) == [panic |-> FALSE, msg |-> <<>>, out |-> out]

Panic(out, msg) == [panic |-> TRUE, msg |-> msg, out |-> out]

getLoopNodeIdentifiersObjects(loopNode) ==
  MapObjectOf(getLoopVarsIdentifiers(loopNode))

(* The visitor of findTestingTCalls: whether the node at i is a call       *)
(* x.methodName(...) whose receiver x is an identifier of type *testing.T. *)
isTestingTCall(i, methodName) ==
  /\ unit[i].k = "CallExpr"
  /\ unit[i].fun = "SelectorExpr"
  /\ unit[i].x.e = "Ident"
  /\ ObjectOf(unit[i].x.id).typ = "*testing.T"
  /\ unit[i].callee.name = methodName

(* ast.Inspect over the nodes i..hi: a visitor that answers false keeps    *)
(* the walk out of that node's children and the walk goes on with the next *)
(* node after them; every match overwrites matchingCallExpression.         *)
RECURSIVE inspectTestingTCalls(_, _, _, _)
inspectTestingTCalls(i, hi, methodName, matchingCallExpression) ==
  IF i > hi THEN matchingCallExpression
  ELSE IF isTestingTCall(i, methodName)
       THEN inspectTestingTCalls(i + unit[i].size + 1, hi, methodName, i)
       ELSE inspectTestingTCalls(i + 1, hi, methodName, matchingCallExpression)

(* The call found under the root node (its descendants lo..hi), 0 for nil. *)
findTestingTCalls(lo, hi, methodName) ==
  inspectTestingTCalls(lo, hi, methodName, 0)

isGinkgoIdentifier(identifier) ==
  LET packagePath == ObjectOf(identifier).pkg
  IN  packagePath = "github.com/onsi/ginkgo/v2" \/ packagePath = "github.com/onsi/ginkgo"

isGinkgoItCall(i) ==
  /\ unit[i].k = "CallExpr"
  /\ unit[i].fun \in {"SelectorExpr", "Ident"}
  /\ unit[i].callee.name = "It"
  /\ isGinkgoIdentifier(unit[i].callee)

RECURSIVE inspectGinkgoItCalls(_, _, _)
inspectGinkgoItCalls(i, hi, matchingCallExpression) ==
  IF i > hi THEN matchingCallExpression
  ELSE IF isGinkgoItCall(i)
       THEN inspectGinkgoItCalls(i + unit[i].size + 1, hi, i)
       ELSE inspectGinkgoItCalls(i + 1, hi, matchingCallExpression)

findGinkgoItCalls(lo, hi) == inspectGinkgoItCalls(lo, hi, 0)

(* The type assertion on runCall.Args[1]: an index fault when the call has fewer *)
(* than two arguments, nil (0) when the argument is no function literal,   *)
(* else the closure, named by the position of its call.                    *)
getSubtestClosure(runCall) ==
  IF unit[runCall].nargs < 2
  THEN [panic |-> TRUE, closure |-> 0,
        msg |-> <<"runtime error: index out of range", 1, unit[runCall].nargs>>]
  ELSE [panic |-> FALSE, msg |-> <<>>,
        closure |-> IF unit[runCall].lit THEN runCall ELSE 0]

(* The position of the Parallel call of the closure, 0 for nil. *)
isParallelFunctionClosure(closure) ==
  findTestingTCalls(closure + 1, closure + unit[closure].size, "Parallel")

(* The comparison made by name instead of by object. *)
checkAndReportLoopIdentifierObject_ByName(loopVarsIdentifiersObjects, node, message) ==
  IF /\ unit[node].k = "Ident"
     /\ \E n \in 1..Len(loopVarsIdentifiersObjects) :
          unit[node].id.name = loopVarsIdentifiersObjects[n].name
  THEN [out |-> <<Reportf(node, message, <<unit[node].id.name, unit[node].id.name>>)>>,
        descend |-> FALSE]
  ELSE [out |-> <<>>, descend |-> TRUE]

(* Reports the node when it is an identifier whose object is one of the    *)
(* loop variables' objects; descend is the visitor's answer.               *)
checkAndReportLoopIdentifierObject(loopVarsIdentifiersObjects, node, message) ==
  IF /\ unit[node].k = "Ident"
     /\ \E n \in 1..Len(loopVarsIdentifiersObjects) :
          ObjectOf(unit[node].id) = loopVarsIdentifiersObjects[n]
  THEN [out |-> <<Reportf(node, message, <<unit[node].id.name, unit[node].id.name>>)>>,
        descend |-> FALSE]
  ELSE [out |-> <<>>, descend |-> TRUE]

(* ast.Inspect over the closure in checkAndReportLoop: the nodes at or     *)
(* before the Parallel call are passed over.                               *)
RECURSIVE inspectParallelClosure(_, _, _, _)
inspectParallelClosure(i, hi, loopVarsIdentifiersObjects, parallelTokenPos) ==
  IF i > hi THEN <<>>
  ELSE IF i <= parallelTokenPos
       THEN inspectParallelClosure(i + 1, hi, loopVarsIdentifiersObjects, parallelTokenPos)
       ELSE LET r == checkAndReportLoopIdentifierObject(
                       loopVarsIdentifiersObjects, i, goTestFailureMessageFormat)
            IN  r.out \o inspectParallelClosure(
                           IF r.descend THEN i + 1 ELSE i + unit[i].size + 1,
                           hi, loopVarsIdentifiersObjects, parallelTokenPos)

(* Every parallel subtest closure of the loop body checked, the nested    *)
(* ones as well, each against its own Parallel call.                       *)
RECURSIVE everyRunFrom(_, _, _)
everyRunFrom(i, hi, loopVarsIdentifiersObjects) ==
  IF i > hi THEN <<>>
  ELSE (IF /\ isTestingTCall(i, "Run")
           /\ unit[i].nargs >= 2
           /\ unit[i].lit
           /\ isParallelFunctionClosure(i) # 0
        THEN inspectParallelClosure(i + 1, i + unit[i].size,
                                    loopVarsIdentifiersObjects,
                                    isParallelFunctionClosure(i))
        ELSE <<>>)
       \o everyRunFrom(i + 1, hi, loopVarsIdentifiersObjects)

checkAndReportLoop_EveryRun(loopNode) ==
  Normal(everyRunFrom(loopNode + 1, loopNode + unit[loopNode].size,
                      getLoopNodeIdentifiersObjects(unit[loopNode])))

checkAndReportLoop(loopNode) ==
  LET loopVarsIdentifiersObjects == getLoopNodeIdentifiersObjects(unit[loopNode])
      runCall == findTestingTCalls(loopNode + 1, loopNode + unit[loopNode].size, "Run")
  IN  IF runCall = 0 THEN Normal(<<>>)
      ELSE LET c == getSubtestClosure(runCall)
           IN  IF c.panic THEN Panic(<<>>, c.msg)
               ELSE IF c.closure = 0 THEN Normal(<<>>)
               ELSE LET parallelTokenPos == isParallelFunctionClosure(c.closure)
                    IN  IF parallelTokenPos = 0 THEN Normal(<<>>)
                        ELSE Normal(inspectParallelClosure(
                                      c.closure + 1, c.closure + unit[c.closure].size,
                                      loopVarsIdentifiersObjects, parallelTokenPos))

RECURSIVE inspectGinkgoClosure(_, _, _)
inspectGinkgoClosure(i, hi, loopVarsIdentifiersObjects) ==
  IF i > hi THEN <<>>
  ELSE LET r == checkAndReportLoopIdentifierObject(
                  loopVarsIdentifiersObjects, i, ginkgoFailureMessageFormat)
       IN  r.out \o inspectGinkgoClosure(
                      IF r.descend THEN i + 1 ELSE i + unit[i].size + 1,
                      hi, loopVarsIdentifiersObjects)

checkAndReportLoopGinkgo(loopNode) ==
  LET loopVarsIdentifiersObjects == getLoopNodeIdentifiersObjects(unit[loopNode])
      ginkgoItCall == findGinkgoItCalls(loopNode + 1, loopNode + unit[loopNode].size)
  IN  IF ginkgoItCall = 0 THEN Normal(<<>>)
      ELSE LET c == getSubtestClosure(ginkgoItCall)
           IN  IF c.panic THEN Panic(<<>>, c.msg)
               ELSE IF c.closure = 0 THEN Normal(<<>>)
               ELSE Normal(inspectGinkgoClosure(
                             c.closure + 1, c.closure + unit[c.closure].size,
                             loopVarsIdentifiersObjects))

(* The callback without its recover: the panic leaves the callback. *)
recoverPanic_None(loopNode, out, r) == [out |-> out, escaped |-> TRUE]

(* The deferred function of the per-loop callback: a recovered panic is    *)
(* reported at the loop's position and the callback returns normally.      *)
recoverPanic(loopNode, out, r) ==
  [out |-> out \o <<Reportf(loopNode, panicMessageFormat, <<r>>)>>, escaped |-> FALSE]

(* The callback findIgnoredTests gives to Preorder, on one loop: what it   *)
(* reports, which of the two checks it called, and whether a panic left it.*)
loopCallback(loopNode) ==
  LET g == checkAndReportLoop(loopNode)
  IN  IF g.panic
      THEN recoverPanic(loopNode, g.out, g.msg)
             @@ [ginkgo |-> FALSE, fault |-> TRUE]
      ELSE LET s == checkAndReportLoopGinkgo(loopNode)
           IN  IF s.panic
               THEN recoverPanic(loopNode, g.out \o s.out, s.msg)
                      @@ [ginkgo |-> TRUE, fault |-> TRUE]
               ELSE [out |-> g.out \o s.out, escaped |-> FALSE,
                     ginkgo |-> TRUE, fault |-> FALSE]

----------------------------------------------------------------------------
(* The source units of the check *)

ThisPkg == "example.com/pkg"

IntVar(name, decl) == Obj(name, decl, "int", ThisPkg)

TestingT(decl) == Obj("t", decl, "*testing.T", ThisPkg)

(* v, k: the loop's variables; a v declared inside the closure; the v of   *)
(* an inner loop; o, declared before the loops; f, a struct field; the     *)
(* blank identifier a := declares.                                         *)
V == Ident("v", IntVar("v", "loop"))
K == Ident("k", IntVar("k", "loop"))
VLocal == Ident("v", IntVar("v", "closure"))
VInner == Ident("v", IntVar("v", "inner loop"))
O == Ident("o", IntVar("o", "function"))
F == Ident("f", IntVar("f", "struct"))
BlankDef == Ident("_", IntVar("_", "loop"))
BlankUse == Ident("_", NoObject)

(* t of the test function, of a subtest closure, of a nested closure. *)
T0 == Ident("t", TestingT("function"))
T1 == Ident("t", TestingT("closure"))
T2 == Ident("t", TestingT("nested closure"))
R0 == Ident("r", Obj("r", "function", "*pkg.Runner", ThisPkg))

RunSel == Ident("Run", Obj("Run", "testing", "func", "testing"))
ParallelSel == Ident("Parallel", Obj("Parallel", "testing", "func", "testing"))
ItV1 == Ident("It", Obj("It", "ginkgo", "func", "github.com/onsi/ginkgo"))
ItV2 == Ident("It", Obj("It", "ginkgo v2", "func", "github.com/onsi/ginkgo/v2"))
ItLocal == Ident("It", Obj("It", "package", "func", ThisPkg))

X(id) == Expr("Ident", id)

(* t.Run("n", func(t *testing.T) { body }) *)
RunLit(recv, param, body) == SelCall(X(recv), RunSel, 2, TRUE, ObjectOf(param), body)
(* t.Run("n"), t.Run("n", fn) *)
RunOneArg == SelCall(X(T0), RunSel, 1, FALSE, NoObject, <<>>)
RunNotLit == SelCall(X(T0), RunSel, 2, FALSE, NoObject, <<>>)
(* t.Parallel() *)
Par(recv) == SelCall(X(recv), ParallelSel, 0, FALSE, NoObject, <<>>)
(* It("d", func() { body }), ginkgo.It("d", func() { body }) *)
ItLit(callee, body) == IdentCall(callee, 2, TRUE, body)
ItSelLit(callee, body) ==
  SelCall(Expr("Ident", Ident("ginkgo", Obj("ginkgo", "import", "invalid type", ThisPkg))),
          callee, 2, TRUE, NoObject, body)
ItOneArg == IdentCall(ItV2, 1, FALSE, <<>>)
ItNotLit == IdentCall(ItV1, 2, FALSE, <<>>)

RECURSIVE Flatten(_)
Flatten(s) == IF s = <<>> THEN <<>> ELSE Head(s) \o Flatten(Tail(s))

SeqsUpTo(S, n) == UNION {[1..m -> S] : m \in 0..n}

(* The statements of a subtest closure drawn in full. *)
ClosureItems ==
  { IdentNode(V), IdentNode(VLocal), IdentNode(K),
    Par(T1), Par(T0), Par(R0),
    RunLit(T1, T2, Par(T2)), RunLit(T1, T2, Par(T2) \o IdentNode(V)),
    ItLit(ItV1, IdentNode(V)) }

ClosureBodies == {Flatten(s) : s \in SeqsUpTo(ClosureItems, MaxBody)}

(* One loop, one subtest, every closure body. *)
UnitsOneSubtest ==
  { RangeStmt(":=", X(K), X(V), TRUE, RunLit(T0, T1, b)) : b \in ClosureBodies }

(* The loop headers: range and for, defining and assigning, with an        *)
(* identifier, a selector or an index expression on the left.              *)
LoopHeaders ==
  { [k |-> "RangeStmt", init |-> "", tok |-> ":=", lhs |-> <<X(BlankDef), X(V)>>],
    [k |-> "RangeStmt", init |-> "", tok |-> ":=", lhs |-> <<X(K), X(V)>>],
    [k |-> "RangeStmt", init |-> "", tok |-> ":=", lhs |-> <<X(K), NilExpr>>],
    [k |-> "RangeStmt", init |-> "", tok |-> "=", lhs |-> <<X(O), NilExpr>>],
    [k |-> "RangeStmt", init |-> "", tok |-> "", lhs |-> <<NilExpr, NilExpr>>],
    [k |-> "RangeStmt", init |-> "", tok |-> "=",
       lhs |-> <<Expr("IndexExpr", NilIdent), Expr("SelectorExpr", F)>>],
    [k |-> "ForStmt", init |-> "AssignStmt", tok |-> ":=", lhs |-> <<X(V)>>],
    [k |-> "ForStmt", init |-> "AssignStmt", tok |-> ":=", lhs |-> <<X(V), X(K)>>],
    [k |-> "ForStmt", init |-> "AssignStmt", tok |-> "=", lhs |-> <<X(O)>>],
    [k |-> "ForStmt", init |-> "AssignStmt", tok |-> "=",
       lhs |-> <<Expr("SelectorExpr", F), Expr("IndexExpr", NilIdent)>>],
    [k |-> "ForStmt", init |-> "IncDecStmt", tok |-> "", lhs |-> <<>>],
    [k |-> "ForStmt", init |-> "nil", tok |-> "", lhs |-> <<>>] }

Loop(h, fnTest, body) ==
  IF h.k = "ForStmt" THEN ForStmt(h.init, h.tok, h.lhs, fnTest, body)
  ELSE RangeStmt(h.tok, h.lhs[1], h.lhs[2], fnTest, body)

EveryUse ==
  IdentNode(V) \o IdentNode(VLocal) \o IdentNode(K) \o IdentNode(O) \o IdentNode(F)
    \o IdentNode(BlankUse)

(* Every loop header over one subtest or one spec that uses every name. *)
UnitsHeaders ==
  { Loop(h, fnTest, c) :
      h \in LoopHeaders, fnTest \in BOOLEAN,
      c \in { RunLit(T0, T1, Par(T1) \o EveryUse), ItLit(ItV2, EveryUse) } }

(* The calls of a loop body. *)
Calls ==
  { RunLit(T0, T1, Par(T1) \o IdentNode(V)),
    RunLit(T0, T1, IdentNode(V)),
    RunLit(T0, T1, Par(T1) \o IdentNode(V) \o ItLit(ItV1, IdentNode(V))),
    RunLit(R0, T1, Par(T1) \o IdentNode(V)),
    RunOneArg, RunNotLit,
    ItLit(ItV1, IdentNode(V)),
    ItSelLit(ItV2, IdentNode(K) \o IdentNode(V)),
    ItLit(ItLocal, IdentNode(V)),
    ItLit(ItLocal, ItLit(ItV1, IdentNode(V))),
    ItOneArg, ItNotLit }

(* One loop over one or two calls. *)
UnitsCalls ==
  { RangeStmt(":=", X(K), X(V), TRUE, b) :
      b \in Calls \cup {c \o d : c \in Calls, d \in Calls} }

NestHeaders ==
  { [k |-> "RangeStmt", init |-> "", tok |-> ":=", lhs |-> <<X(K), X(V)>>],
    [k |-> "RangeStmt", init |-> "", tok |-> ":=", lhs |-> <<X(BlankDef), X(VInner)>>],
    [k |-> "RangeStmt", init |-> "", tok |-> "=", lhs |-> <<X(O), NilExpr>>] }

NestCalls ==
  { RunLit(T0, T1, Par(T1) \o IdentNode(V) \o IdentNode(VInner) \o IdentNode(O)),
    ItLit(ItV1, IdentNode(V) \o IdentNode(VInner) \o IdentNode(O)),
    RunOneArg, ItOneArg }

(* Two loops, one after the other or one inside the other. *)
UnitsTwoLoops ==
  { Loop(g, TRUE, c) \o Loop(h, FALSE, d) :
      g \in NestHeaders, h \in NestHeaders, c \in NestCalls, d \in NestCalls }
  \cup
  { Loop(g, TRUE, pre \o Loop(h, TRUE, c) \o post) :
      g \in NestHeaders, h \in NestHeaders, c \in NestCalls \cup {<<>>},
      pre \in NestCalls \cup {<<>>}, post \in NestCalls \cup {<<>>} }

Units == UnitsOneSubtest \cup UnitsHeaders \cup UnitsCalls \cup UnitsTwoLoops

----------------------------------------------------------------------------
(* The scan: findIgnoredTests *)

(* The first loop at or after position c, 0 when there is none: the next   *)
(* node Preorder hands to the callback.                                    *)
NextLoop(c) ==
  LET later == {i \in c..Len(unit) : isLoop(i)}
  IN  IF later = {} THEN 0 ELSE CHOOSE i \in later : \A j \in later : i <= j

(* Preorder reaches the next loop and runs the callback on it. *)
Callback ==
  /\ pc = "scanning"
  /\ NextLoop(cursor) # 0
  /\ LET loopNode == NextLoop(cursor)
         r == loopCallback(loopNode)
     IN  /\ diags' = diags \o r.out
         /\ log' = Append(log, [loop |-> loopNode, first |-> Len(diags) + 1,
                                last |-> Len(diags) + Len(r.out),
                                ginkgo |-> r.ginkgo, fault |-> r.fault])
         /\ cursor' = loopNode + 1
         /\ pc' = IF r.escaped THEN "crashed" ELSE "scanning"
  /\ UNCHANGED unit

(* No loop is left: findIgnoredTests returns nil, nil. *)
Return ==
  /\ pc = "scanning"
  /\ NextLoop(cursor) = 0
  /\ pc' = "returned"
  /\ cursor' = Len(unit) + 1
  /\ UNCHANGED <<unit, diags, log>>

Init ==
  /\ unit \in Units
  /\ cursor = 1
  /\ diags = <<>>
  /\ log = <<>>
  /\ pc = "scanning"

Next == Callback \/ Return

Spec == Init /\ [][Next]_vars

----------------------------------------------------------------------------
(* What the claims speak of *)

Min(S) == CHOOSE i \in S : \A j \in S : i <= j

FirstIn(S) == IF S = {} THEN 0 ELSE Min(S)

Entries == 1..Len(log)

(* The diagnostics the callback of log entry n reported. *)
Segment(n) == log[n].first .. log[n].last

Loops == {i \in 1..Len(unit) : unit[i].k \in {"ForStmt", "RangeStmt"}}

IsIdentAt(j) == unit[j].k = "Ident"

(* The objects of the loop's variables, as the analyzer extracts them. *)
LoopObjects(l) ==
  LET objs == getLoopNodeIdentifiersObjects(unit[l])
  IN  {objs[i] : i \in 1..Len(objs)}

(* The identifier at j resolves to one of the variables of loop l. *)
Resolves(j, l) ==
  /\ IsIdentAt(j)
  /\ unit[j].id.obj # NoObject
  /\ unit[j].id.obj \in LoopObjects(l)

(* The diagnostics of entry n with this format at position j. *)
ReportsAt(n, format, j) ==
  {i \in Segment(n) : diags[i].format = format /\ diags[i].pos = j}

NamesIt(i) ==
  diags[i].args = <<unit[diags[i].pos].id.name, unit[diags[i].pos].id.name>>

(* A Run(...) call on an identifier of type *testing.T. *)
IsSubtestCall(j) ==
  /\ unit[j].k = "CallExpr"
  /\ unit[j].fun = "SelectorExpr"
  /\ unit[j].x.e = "Ident"
  /\ unit[j].x.id.obj.typ = "*testing.T"
  /\ unit[j].callee.name = "Run"

HasClosure(c) == unit[c].nargs >= 2 /\ unit[c].lit

(* A zero-argument Parallel() call on the own parameter of closure r. *)
OwnMarkers(r) ==
  {m \in Below(r) :
     /\ unit[m].k = "CallExpr"
     /\ unit[m].fun = "SelectorExpr"
     /\ unit[m].x.e = "Ident"
     /\ unit[m].callee.name = "Parallel"
     /\ unit[m].nargs = 0
     /\ unit[m].x.id.obj = unit[r].param}

(* An It(...) call, bare or qualified, whose callee ginkgo declares. *)
IsSpecCall(j) ==
  /\ unit[j].k = "CallExpr"
  /\ unit[j].fun \in {"SelectorExpr", "Ident"}
  /\ unit[j].callee.name = "It"
  /\ unit[j].callee.obj.pkg \in {"github.com/onsi/ginkgo", "github.com/onsi/ginkgo/v2"}

SubtestCalls(l) == {j \in Below(l) : IsSubtestCall(j)}

SpecCalls(l) == {j \in Below(l) : IsSpecCall(j)}

(* Every subtest and spec call inside loop l has its two arguments. *)
WellFormed(l) == \A j \in SubtestCalls(l) \cup SpecCalls(l) : unit[j].nargs >= 2

(* The closure checkAndReportLoop walks for loop l and the position it     *)
(* keeps of the Parallel call; 0 when it walks none.                       *)
WalkedSubtest(l) ==
  LET r == findTestingTCalls(l + 1, l + unit[l].size, "Run")
  IN  IF r # 0 /\ HasClosure(r) /\ isParallelFunctionClosure(r) # 0 THEN r ELSE 0

WalkedSpec(l) ==
  LET c == findGinkgoItCalls(l + 1, l + unit[l].size)
  IN  IF c # 0 /\ HasClosure(c) THEN c ELSE 0

IsPrefix(a, b) == Len(a) <= Len(b) /\ SubSeq(b, 1, Len(a)) = a

----------------------------------------------------------------------------
(* The claims *)

(* C1: in a loop whose subtest call (the first Run call on a *testing.T in *)
(* its body, with a function literal) has a closure that calls Parallel()  *)
(* on its own parameter, every identifier of the closure that resolves to  *)
(* a loop variable and lies after that call is reported exactly once, at   *)
(* its position and by its name, and none at or before the call is         *)
(* reported.  Stated for the loops all of whose calls have two arguments.  *)
SubtestWithMarkerReports ==
  \A n \in Entries :
    LET l == log[n].loop
        r == FirstIn(SubtestCalls(l))
    IN  (WellFormed(l) /\ r # 0 /\ HasClosure(r) /\ OwnMarkers(r) # {}) =>
          LET m == Min(OwnMarkers(r))
          IN  \A j \in Below(r) :
                Resolves(j, l) =>
                  IF j > m
                  THEN /\ Cardinality(ReportsAt(n, goTestFailureMessageFormat, j)) = 1
                       /\ \A i \in ReportsAt(n, goTestFailureMessageFormat, j) : NamesIt(i)
                  ELSE ReportsAt(n, goTestFailureMessageFormat, j) = {}

(* C2: a loop none of whose subtest closures calls Parallel() on its own   *)
(* parameter gets no parallel-test diagnostic.                             *)
SubtestWithoutMarkerSilent ==
  \A n \in Entries :
    LET l == log[n].loop
    IN  (\A r \in SubtestCalls(l) : OwnMarkers(r) = {}) =>
          \A i \in Segment(n) : diags[i].format # goTestFailureMessageFormat

(* C3: when the ginkgo check runs on a loop whose spec call (the first It  *)
(* call ginkgo declares, with a function literal) has a closure, every     *)
(* identifier of the closure that resolves to a loop variable is reported  *)
(* exactly once with the ginkgo format; a loop with no such It call gets   *)
(* no ginkgo diagnostic.  Stated for the loops all of whose calls have two *)
(* arguments.                                                              *)
SpecReports ==
  \A n \in Entries :
    LET l == log[n].loop
        c == FirstIn(SpecCalls(l))
    IN  /\ (WellFormed(l) /\ log[n].ginkgo /\ c # 0 /\ HasClosure(c)) =>
             \A j \in Below(c) :
               Resolves(j, l) =>
                 /\ Cardinality(ReportsAt(n, ginkgoFailureMessageFormat, j)) = 1
                 /\ \A i \in ReportsAt(n, ginkgoFailureMessageFormat, j) : NamesIt(i)
        /\ c = 0 => \A i \in Segment(n) : diags[i].format # ginkgoFailureMessageFormat

MalformedRunSkipped ==
  \A n \in Entries :
    LET l == log[n].loop
        r == findTestingTCalls(l + 1, l + unit[l].size, "Run")
    IN  (r # 0 /\ unit[r].nargs < 2) =>
          /\ log[n].ginkgo
          /\ \A i \in Segment(n) :
               \/ diags[i].format = ginkgoFailureMessageFormat
               \/ diags[i].format = panicMessageFormat /\ checkAndReportLoopGinkgo(l).panic

(* C6: a fault in the check of a loop never leaves the callback; it is     *)
(* reported once, at the loop's position, with the fault's text, after     *)
(* what the loop's checks had reported; the diagnostics reported so far    *)
(* stay; the scan returns only after every loop has been checked once; and *)
(* a loop without fault gets just what its two checks report on it.        *)
FaultIsolationState ==
  /\ pc # "crashed"
  /\ \A n \in Entries :
       LET l == log[n].loop
           panics == {i \in Segment(n) : diags[i].format = panicMessageFormat}
       IN  /\ log[n].fault =>
                /\ panics = {log[n].last}
                /\ diags[log[n].last].pos = l
                /\ diags[log[n].last].args[1][1] = "runtime error: index out of range"
           /\ ~log[n].fault =>
                /\ panics = {}
                /\ SubSeq(diags, log[n].first, log[n].last)
                     = checkAndReportLoop(l).out \o checkAndReportLoopGinkgo(l).out
           /\ log[n].first = IF n = 1 THEN 1 ELSE log[n - 1].last + 1
  /\ Len(log) > 0 => log[Len(log)].last = Len(diags)
  /\ pc = "returned" =>
       \A l \in Loops : Cardinality({n \in Entries : log[n].loop = l}) = 1

FaultIsolation ==
  [](FaultIsolationState) /\ [][IsPrefix(diags, diags')]_vars

(* C6's case: the scan has returned, the first loop faulted and a later    *)
(* loop was checked and has its diagnostics.                               *)
FaultThenReports ==
  /\ pc = "returned"
  /\ \E n \in Entries : \E m \in Entries :
       /\ n < m
       /\ log[n].fault
       /\ ~log[m].fault
       /\ log[m].last >= log[m].first

(* C7: once the scan has returned, every loop, whatever function holds it, *)
(* has had both checks run on it exactly once, and a loop with no subtest  *)
(* and no spec call inside it has no diagnostic.                           *)
EveryLoopBothChecks ==
  pc = "returned" =>
    \A l \in Loops :
      /\ Cardinality({n \in Entries : log[n].loop = l}) = 1
      /\ \A n \in Entries :
           log[n].loop = l =>
             /\ log[n].ginkgo
             /\ (SubtestCalls(l) = {} /\ SpecCalls(l) = {}) => Segment(n) = {}

(* C8: the call each finder returns for a loop body is the first matching  *)
(* call of the body in document order.  Stated for the loops all of whose  *)
(* calls have two arguments.                                               *)
FirstMatchWins ==
  \A n \in Entries :
    LET l == log[n].loop
    IN  WellFormed(l) =>
          /\ findTestingTCalls(l + 1, l + unit[l].size, "Run") = FirstIn(SubtestCalls(l))
          /\ findGinkgoItCalls(l + 1, l + unit[l].size) = FirstIn(SpecCalls(l))

(* The identifiers on the left of a defining assignment: an identifier     *)
(* itself, the field name of a selector, nothing for any other expression. *)
RECURSIVE BoundIdents(_)
BoundIdents(lhs) ==
  IF lhs = <<>> THEN <<>>
  ELSE (IF Head(lhs).e \in {"Ident", "SelectorExpr"} THEN <<Head(lhs).id>> ELSE <<>>)
       \o BoundIdents(Tail(lhs))

(* C9: for a counting loop the extractor returns the left-hand identifiers *)
(* when the initializer is an assignment that declares (:=), and nothing   *)
(* for any other initializer.                                              *)
CountingLoopVars ==
  \A n \in Entries :
    LET loopNode == unit[log[n].loop]
    IN  loopNode.k = "ForStmt" =>
          getLoopVarsIdentifiers(loopNode)
            = IF loopNode.init = "AssignStmt" /\ loopNode.tok = ":="
              THEN BoundIdents(loopNode.lhs)
              ELSE <<>>

(* C10 as stated: over the whole scan no identifier occurrence is reported *)
(* more than once.                                                         *)
ReportedOnce ==
  \A i \in 1..Len(diags) : \A j \in 1..Len(diags) :
    (/\ i # j
     /\ diags[i].format # panicMessageFormat
     /\ diags[j].format # panicMessageFormat) => diags[i].pos # diags[j].pos

(* C10 amended: one check of one loop reports no identifier occurrence     *)
(* more than once (the same format within one callback).                   *)
ReportedOncePerCheck ==
  \A n \in Entries : \A i \in Segment(n) : \A j \in Segment(n) :
    (/\ i # j
     /\ diags[i].format # panicMessageFormat
     /\ diags[i].format = diags[j].format) => diags[i].pos # diags[j].pos

(* C10's case: one identifier occurrence reported twice in the scan, each  *)
(* check having reported it once.                                          *)
ReportedByTwoChecks ==
  /\ pc = "returned"
  /\ \E i \in 1..Len(diags) : \E j \in 1..Len(diags) :
       /\ i # j
       /\ diags[i].pos = diags[j].pos
       /\ diags[i].format = goTestFailureMessageFormat
       /\ diags[j].format = ginkgoFailureMessageFormat

====
